---- MODULE Spec2Model ----
(***************************************************************************)
(* KJBot trading engine (backend/trading_engine.py) as a state machine.    *)
(*                                                                         *)
(* A worker is one call of TradingEngine.execute_signal made by the        *)
(* webhook transport.  Every step of a worker is one blocking gateway      *)
(* call (ccxt) followed by the local code that runs up to the next gateway *)
(* call, so that calls of different workers interleave exactly where the   *)
(* Python threads can be pre-empted on network I/O.                        *)
(*                                                                         *)
(* Numbers.  Python floats are modelled in fixed point:                    *)
(*   money     in cents             (100 USDT = 10000),                    *)
(*   quantity  in tenths of a contract (1 contract = 10),                  *)
(*   percent   as the number given in the signal.                          *)
(* A product or quotient that is not exact in fixed point is one of its    *)
(* two neighbours (FloatDiv), which over-approximates IEEE rounding,       *)
(* underflow to zero included.                                             *)
(***************************************************************************)
EXTENDS Integers, Sequences, FiniteSets, TLC

VARIABLES
    enable_trading,   \* TradingEngine.config["trading"]["enable_trading"]
    exchanges,        \* TradingEngine.exchanges: names that have a handle
    positions,        \* the futures venue: open contracts per market and side
    pc,               \* per worker: where its execute_signal call stands
    received,         \* per worker: the signal as the transport handed it over
    signal,           \* per worker: the caller's signal dict
    frame,            \* per worker: the locals of the running handlers
    calls,            \* per worker: the gateway calls made for this signal
    result,           \* per worker: the Result returned
    normalized,       \* one call of _normalize_symbol: its arguments and result
    resolved,         \* one call of _get_position: the list fetched, the side, the result
    server_config,    \* webhook_server.config["trading"]["enable_trading"]
    testing,          \* per worker: the locals of test_signal
    secrets,          \* the credential store: per exchange the keys stored, 0 for none
    handles,          \* TradingEngine.exchanges: per exchange the handle registered
    rebuild           \* the call of initialize_exchanges: where it stands

\* calls of the helpers on their own
pure_vars == <<normalized, resolved>>

\* the state of webhook_server.py
server_vars == <<server_config, testing>>

\* the credential store and what initialize_exchanges makes of it
registry_vars == <<secrets, handles, rebuild>>

\* the state outside the calls of execute_signal
side_vars == <<pure_vars, server_vars, registry_vars>>

vars == <<enable_trading, exchanges, positions, pc, received, signal, frame, calls, result,
          side_vars>>

(***************************************************************************)
(* Bounds                                                                  *)
(***************************************************************************)
MaxPos == 2           \* the venue accepts at most MaxPos contracts per side
MaxRebuilds == 3      \* calls of initialize_exchanges, the one of __init__ included
MaxFetched == 3       \* length of the list fetch_positions returns

Workers == {1, 2}
ExchangeNames == {"binance", "upbit"}
Sides == {"long", "short"}
Markets == {"BTCUSDT", "ETHUSDT"}   \* market ids of the futures venue

(***************************************************************************)
(* Python helpers                                                          *)
(***************************************************************************)
\* dict.get(key, default)
Get(d, key, default) == IF key \in DOMAIN d THEN d[key] ELSE default

\* d[key] = value
Put(d, key, value) == (key :> value) @@ d

Usdt(n) == n * 100            \* n quote-currency units, in cents
Contracts(n) == n * 10        \* n contracts, in quantity units

UpperChar(c) ==
    CASE c = "a" -> "A" [] c = "b" -> "B" [] c = "c" -> "C" [] c = "d" -> "D"
      [] c = "e" -> "E" [] c = "f" -> "F" [] c = "g" -> "G" [] c = "h" -> "H"
      [] c = "i" -> "I" [] c = "j" -> "J" [] c = "k" -> "K" [] c = "l" -> "L"
      [] c = "m" -> "M" [] c = "n" -> "N" [] c = "o" -> "O" [] c = "p" -> "P"
      [] c = "q" -> "Q" [] c = "r" -> "R" [] c = "s" -> "S" [] c = "t" -> "T"
      [] c = "u" -> "U" [] c = "v" -> "V" [] c = "w" -> "W" [] c = "x" -> "X"
      [] c = "y" -> "Y" [] c = "z" -> "Z" [] OTHER -> c

LowerChar(c) ==
    CASE c = "A" -> "a" [] c = "B" -> "b" [] c = "C" -> "c" [] c = "D" -> "d"
      [] c = "E" -> "e" [] c = "F" -> "f" [] c = "G" -> "g" [] c = "H" -> "h"
      [] c = "I" -> "i" [] c = "J" -> "j" [] c = "K" -> "k" [] c = "L" -> "l"
      [] c = "M" -> "m" [] c = "N" -> "n" [] c = "O" -> "o" [] c = "P" -> "p"
      [] c = "Q" -> "q" [] c = "R" -> "r" [] c = "S" -> "s" [] c = "T" -> "t"
      [] c = "U" -> "u" [] c = "V" -> "v" [] c = "W" -> "w" [] c = "X" -> "x"
      [] c = "Y" -> "y" [] c = "Z" -> "z" [] OTHER -> c

\* str.upper()
RECURSIVE Upper(_)
Upper(s) ==
    IF s = "" THEN ""
    ELSE UpperChar(SubSeq(s, 1, 1)) \o Upper(SubSeq(s, 2, Len(s)))

\* str.lower()
RECURSIVE Lower(_)
Lower(s) ==
    IF s = "" THEN ""
    ELSE LowerChar(SubSeq(s, 1, 1)) \o Lower(SubSeq(s, 2, Len(s)))

\* str.replace(old, ""): every occurrence of old removed, left to right
RECURSIVE Remove(_, _)
Remove(s, old) ==
    IF Len(s) < Len(old) THEN s
    ELSE IF SubSeq(s, 1, Len(old)) = old
         THEN Remove(SubSeq(s, Len(old) + 1, Len(s)), old)
         ELSE SubSeq(s, 1, 1) \o Remove(SubSeq(s, 2, Len(s)), old)

\* sub in s
Contains(s, sub) ==
    \E i \in 1..(Len(s) - Len(sub) + 1) : SubSeq(s, i, i + Len(sub) - 1) = sub

\* s.endswith(suffix)
EndsWith(s, suffix) ==
    /\ Len(s) >= Len(suffix)
    /\ SubSeq(s, Len(s) - Len(suffix) + 1, Len(s)) = suffix

\* the float n / d (d > 0): exact when d divides n, else either neighbour
FloatDiv(n, d) ==
    IF n % d = 0 THEN {n \div d} ELSE {n \div d, (n \div d) + 1}

\* round(n / d, 0) on the fixed-point grid, ties to even as Python's round
RoundHalfEven(n, d) ==
    LET q == n \div d
        r == n % d
    IN  IF 2 * r < d THEN q
        ELSE IF 2 * r > d THEN q + 1
        ELSE IF q % 2 = 0 THEN q ELSE q + 1

(***************************************************************************)
(* Values                                                                  *)
(***************************************************************************)
\* ConfigManager.get_default_config()["trading"]["default_leverage"]
default_leverage == 1

\* Optional[Dict] of _get_position: a position record, or None
None == [side |-> "none", contracts |-> 0]

NoSignal == [action |-> ""]
NoResult == [success |-> FALSE, message |-> "", detail |-> ""]
Result(success, message, detail) ==
    [success |-> success, message |-> message, detail |-> detail]

\* one recorded gateway call
Call(op, market, qty, reduceOnly, ok) ==
    [op |-> op, market |-> market, qty |-> qty, reduceOnly |-> reduceOnly, ok |-> ok]

\* a ccxt handle: the keys it was built from and the call of
\* initialize_exchanges that built it; NoHandle for a name without handle
NoHandle == [keys |-> 0, built |-> 0]
NoRegistry == [e \in ExchangeNames |-> NoHandle]

EmptyFrame ==
    [symbol |-> "", exchange_name |-> "", handler |-> "",
     long_position |-> None, short_position |-> None,
     nested |-> FALSE, closes |-> 0, close_result |-> NoResult,
     exit_side |-> "", percent |-> 0, exit_position |-> None,
     position_size |-> 0, close_quantity |-> 0,
     leverage |-> 0, amount_usdt |-> 0, current_price |-> 0, quantity |-> 0,
     balance_ok |-> FALSE, free_usdt |-> 0, registry |-> NoRegistry]

\* exchange.load_markets() of the futures venue: unified symbol -> market
MarketTable ==
    ("BTC/USDT:USDT" :> [id |-> "BTCUSDT"]) @@ ("ETH/USDT:USDT" :> [id |-> "ETHUSDT"])

\* isinstance(exchange, ccxt.binance): the handle registered as "binance"
is_binance(exchange_name) == exchange_name = "binance"

(***************************************************************************)
(* Pure parts of the engine                                                *)
(***************************************************************************)
\* mutant: only the direct lookup is made
normalize_symbol_direct_only(exchange_name, symbol, markets, load_ok) ==
    LET s == Upper(Remove(symbol, ".P"))
    IN  IF is_binance(exchange_name) /\ load_ok /\ s \in DOMAIN markets
        THEN markets[s].id
        ELSE s

\* TradingEngine._normalize_symbol; load_ok = FALSE is load_markets raising
normalize_symbol(exchange_name, symbol, markets, load_ok) ==
    LET s == Upper(Remove(symbol, ".P"))
        unified_symbol == SubSeq(s, 1, Len(s) - 4) \o "/USDT:USDT"
        \* markets[key]['id'], or the except branch when the entry has no id
        market_id(key) == IF "id" \in DOMAIN markets[key] THEN markets[key].id ELSE s
    IN  IF ~is_binance(exchange_name) THEN s
        ELSE IF ~load_ok THEN s
        ELSE IF s \in DOMAIN markets THEN market_id(s)
        ELSE IF Len(s) > 4 /\ EndsWith(s, "USDT") /\ unified_symbol \in DOMAIN markets
             THEN market_id(unified_symbol)
        ELSE s

\* TradingEngine._get_position, after a successful fetch_positions
get_position(fetched, side) ==
    LET matching == {i \in 1..Len(fetched) : fetched[i].side = side}
        first == CHOOSE i \in matching : \A j \in matching : i <= j
        position == IF matching = {} THEN None ELSE fetched[first]
    IN  IF position # None /\ position.contracts > 0 THEN position ELSE None

\* mutant: the trading switch is never consulted
trading_disabled_never(flag) == FALSE

\* execute_signal line 88: not self.config["trading"]["enable_trading"]
trading_disabled(flag) == ~flag

\* mutant: the duplicate guard looks at the other side's position
same_direction_position_swapped(handler, long_position, short_position) ==
    IF handler = "long_entry" THEN short_position ELSE long_position

\* entry handlers line 210 / 288: the position of the direction being entered
same_direction_position(handler, long_position, short_position) ==
    IF handler = "long_entry" THEN long_position ELSE short_position

\* mutant: the entry never sees a position of the other direction
opposite_direction_position_unseen(handler, long_position, short_position) == None

\* entry handlers line 218 / 296: the position of the other direction
opposite_direction_position(handler, long_position, short_position) ==
    IF handler = "long_entry" THEN short_position ELSE long_position

\* mutant: a missing amount counts as zero
signal_amount_zero_default(sig) == Get(sig, "amount", 0)

\* entry handlers line 230 / 308: signal.get("amount", 100)
signal_amount(sig) == Get(sig, "amount", Usdt(100))

\* mutant: nothing to close is reported as a failure
no_position_result_failure == Result(FALSE, "no_position", "")

\* exit handlers lines 377-381 / 451-455: nothing to close is a success
no_position_result == Result(TRUE, "no_position", "")

\* execute_signal line 75: signal.get("action"); a missing action is None,
\* which equals no action name
action_of(sig) == Get(sig, "action", "")

\* execute_signal line 106: "entry" in action raises TypeError when the
\* action is None
compound_mode_raises(sig) ==
    /\ "percent" \in DOMAIN sig
    /\ "amount" \notin DOMAIN sig
    /\ "action" \notin DOMAIN sig

\* mutant: the percent mode is entered whatever the action
compound_mode_any_action(sig) ==
    /\ "percent" \in DOMAIN sig
    /\ "amount" \notin DOMAIN sig
    /\ "action" \in DOMAIN sig

\* execute_signal: "percent" in signal and "amount" not in signal and "entry" in action
compound_mode(sig) ==
    /\ "percent" \in DOMAIN sig
    /\ "amount" \notin DOMAIN sig
    /\ "action" \in DOMAIN sig
    /\ Contains(sig.action, "entry")

\* mutant: a small amount is raised to the threshold itself
compound_amount_clamp_ten(free_usdt, percent) ==
    LET calculated_x100 == free_usdt * percent
    IN  IF calculated_x100 < Usdt(10) * 100
        THEN Usdt(10)
        ELSE RoundHalfEven(calculated_x100, 100)

\* execute_signal: the amount stored in signal['amount'] from the free balance
compound_amount(free_usdt, percent) ==
    LET calculated_x100 == free_usdt * percent     \* calculated_amount * 100
    IN  IF calculated_x100 < Usdt(10) * 100
        THEN Usdt(11)
        ELSE RoundHalfEven(calculated_x100, 100)

\* execute_signal line 109: the balance was fetched and has a free USDT entry
balance_found(ok, free) == ok /\ "USDT" \in DOMAIN free

\* mutant: without a balance the amount is the minimum order amount
balance_amount_minimum(ok, free, percent) ==
    IF balance_found(ok, free)
    THEN compound_amount(free["USDT"], percent)
    ELSE Usdt(11)

\* execute_signal lines 107-126: signal['amount'] of the percent mode
balance_amount(ok, free, percent) ==
    IF balance_found(ok, free)
    THEN compound_amount(free["USDT"], percent)
    ELSE Usdt(100)

\* _execute_long_exit / _execute_short_exit: percent <= 0 or percent > 100
percent_out_of_range(percent) == percent <= 0 \/ percent > 100

\* position_size * (percent / 100)
raw_close_quantity(position_size, percent) == FloatDiv(position_size * percent, 100)

\* mutant: a zero close quantity passes the guard
close_quantity_rejected_strict(close_quantity) == close_quantity < 0

\* close_quantity <= 0
close_quantity_rejected(close_quantity) == close_quantity <= 0

\* if close_quantity > position_size: close_quantity = position_size
clamp_close_quantity(close_quantity, position_size) ==
    IF close_quantity > position_size THEN position_size ELSE close_quantity

\* (amount_usdt * leverage) / current_price, in quantity units
entry_quantity(amount_usdt, leverage, current_price) ==
    FloatDiv(amount_usdt * leverage, 10 * current_price)

(***************************************************************************)
(* The venues behind the gateway.  "binance" is built as a futures handle   *)
(* (defaultType future) and keeps one position per market and side (hedge   *)
(* mode); "upbit" is a spot venue: it has no positions to report, and its    *)
(* orders leave the futures positions alone.                                 *)
(***************************************************************************)
\* ccxt.binance({... 'defaultType': 'future'}) against ccxt.upbit({...})
is_futures(exchange_name) == exchange_name = "binance"

\* exchange.fetch_positions([market_id])
fetch_positions(market) ==
    << [side |-> "long",  contracts |-> Contracts(positions[market]["long"])],
       [side |-> "short", contracts |-> Contracts(positions[market]["short"])] >>

\* whole contracts in an order quantity (the venue truncates to its step)
Lots(qty) == IF qty <= 0 THEN 0 ELSE qty \div 10

\* an opening order is filled unless it is below one step or over the limit
venue_accepts_open(exchange_name, market, side, qty) ==
    /\ Lots(qty) >= 1
    /\ is_futures(exchange_name) =>
          /\ market \in Markets
          /\ positions[market][side] + Lots(qty) <= MaxPos

\* a reduce-only order is filled when there is something to reduce
venue_accepts_reduce(exchange_name, market, side, qty) ==
    /\ is_futures(exchange_name)
    /\ market \in Markets
    /\ Lots(qty) >= 1
    /\ positions[market][side] >= 1

filled_open(exchange_name, market, side, qty) ==
    IF is_futures(exchange_name)
    THEN [positions EXCEPT ![market][side] = @ + Lots(qty)]
    ELSE positions

filled_reduce(market, side, qty) ==
    [positions EXCEPT ![market][side] = IF Lots(qty) >= @ THEN 0 ELSE @ - Lots(qty)]

(***************************************************************************)
(* Control                                                                 *)
(***************************************************************************)
Set(w, label, sig, fr, res) ==
    /\ pc' = [pc EXCEPT ![w] = label]
    /\ signal' = [signal EXCEPT ![w] = sig]
    /\ frame' = [frame EXCEPT ![w] = fr]
    /\ result' = [result EXCEPT ![w] = res]

\* execute_signal returns res to its caller
Return(w, sig, fr, res) == Set(w, "done", sig, fr, res)

\* the call goes on to its next gateway call
Goto(w, label, sig, fr) == Set(w, label, sig, fr, NoResult)

Record(w, entries) == calls' = [calls EXCEPT ![w] = @ \o entries]

\* execute_signal lines 144-150: an exception that reaches the dispatcher
caught(w, sig, fr, exception) == Return(w, sig, fr, Result(FALSE, "error", exception))

\* mutant: the entry handlers let the exception through to the caller
entry_failed_reraised(w, sig, fr) == Set(w, "raised", sig, fr, NoResult)

\* entry handlers lines 272-278 / 350-356: except Exception of the handler
entry_failed(w, sig, fr) == Return(w, sig, fr, Result(FALSE, "entry_failed", ""))

\* mutant: a set_leverage that raises ends the entry
after_set_leverage_fatal(w, sig, fr, ok) ==
    IF ok THEN Goto(w, "fetch_ticker", sig, fr) ELSE entry_failed(w, sig, fr)

\* entry handlers lines 237-242 / 315-320: the except around set_leverage
\* only logs a warning
after_set_leverage(w, sig, fr, ok) == Goto(w, "fetch_ticker", sig, fr)

\* the market a worker's gateway calls address, and the calls that
\* _normalize_symbol makes on the way
\* _normalize_symbol of the tickers the signals carry, computed once
TickerSymbols == {"BTCUSDT", "BTCUSDT.P", "ETHUSDT"}
NormalizedSymbols ==
    [exchange_name \in ExchangeNames, symbol \in TickerSymbols |->
        normalize_symbol(exchange_name, symbol, MarketTable, TRUE)]

market_of(fr) ==
    IF <<fr.exchange_name, fr.symbol>> \in DOMAIN NormalizedSymbols
    THEN NormalizedSymbols[fr.exchange_name, fr.symbol]
    ELSE normalize_symbol(fr.exchange_name, fr.symbol, MarketTable, TRUE)

load_markets_calls(fr) ==
    IF is_binance(fr.exchange_name)
    THEN <<Call("load_markets", market_of(fr), 0, FALSE, TRUE)>>
    ELSE <<>>

\* mutant: after its checks the entry is dispatched again
entry_continue_redispatch(w, sig, fr) == Goto(w, "entry_get_long", sig, fr)

\* _execute_long_entry lines 229-233 (and 307-311): sizing inputs of the entry
entry_continue(w, sig, fr) ==
    LET leverage == Get(sig, "leverage", default_leverage)
        amount_usdt == signal_amount(sig)
        next == IF is_binance(fr.exchange_name) THEN "set_leverage" ELSE "fetch_ticker"
    IN  Goto(w, next, sig, [fr EXCEPT !.leverage = leverage, !.amount_usdt = amount_usdt])

\* mutant: the entry goes on whatever the close reported
exit_return_ignoring_failure(w, sig, fr, res) ==
    IF fr.nested
    THEN entry_continue(w, sig, [fr EXCEPT !.close_result = res])
    ELSE Return(w, sig, fr, res)

\* an exit handler returns res: to the entry that called it, or to the caller
exit_return(w, sig, fr, res) ==
    IF fr.nested
    THEN IF ~res.success
         THEN Return(w, sig, [fr EXCEPT !.close_result = res],
                     Result(FALSE, "close_failed", res.message))
         ELSE entry_continue(w, sig, [fr EXCEPT !.close_result = res])
    ELSE Return(w, sig, fr, res)

\* mutant: a reduce-only order that fails is placed again
exit_failed_retry(w, sig, fr) == Goto(w, "exit_order", sig, fr)

\* exit handlers lines 424-430 / 498-504: except Exception of the handler
exit_failed(w, sig, fr) == exit_return(w, sig, fr, Result(FALSE, "exit_failed", ""))

\* _execute_long_exit / _execute_short_exit lines 361-369: percent validation
exit_begin(w, sig, fr, side, exit_signal) ==
    LET percent == Get(exit_signal, "percent", 100)
        fr2 == [fr EXCEPT !.exit_side = side, !.percent = percent]
    IN  IF percent_out_of_range(percent)
        THEN exit_return(w, sig, fr2, Result(FALSE, "percent_out_of_range", ""))
        ELSE Goto(w, "exit_get_position", sig, fr2)

\* mutant: an entry is sized and ordered without looking at the positions
dispatch_unqueried(w, sig, fr) ==
    LET action == action_of(sig)
    IN  IF action = "long_entry" \/ action = "short_entry"
        THEN entry_continue(w, sig, [fr EXCEPT !.handler = action])
        ELSE IF action = "long_exit"
        THEN exit_begin(w, sig, [fr EXCEPT !.handler = action], "long", sig)
        ELSE IF action = "short_exit"
        THEN exit_begin(w, sig, [fr EXCEPT !.handler = action], "short", sig)
        ELSE Return(w, sig, fr, Result(FALSE, "unknown_action", ""))

\* execute_signal lines 128-142: routing on the action
dispatch(w, sig, fr) ==
    LET action == action_of(sig)
    IN  IF action = "long_entry" \/ action = "short_entry"
        THEN Goto(w, "entry_get_long", sig, [fr EXCEPT !.handler = action])
        ELSE IF action = "long_exit"
        THEN exit_begin(w, sig, [fr EXCEPT !.handler = action], "long", sig)
        ELSE IF action = "short_exit"
        THEN exit_begin(w, sig, [fr EXCEPT !.handler = action], "short", sig)
        ELSE Return(w, sig, fr, Result(FALSE, "unknown_action", ""))

(***************************************************************************)
(* Steps of execute_signal                                                 *)
(***************************************************************************)
\* execute_signal lines 75-106, whoever calls it
execute_signal_call(w, sig) ==
    /\ pc[w] = "idle"
    /\ LET symbol0 == Get(sig, "symbol", "BTCUSDT")
           exchange_name == Lower(Get(sig, "exchange", "binance"))
           symbol == IF exchange_name = "binance"
                     THEN Upper(Remove(symbol0, ".P"))
                     ELSE symbol0
           fr0 == [EmptyFrame EXCEPT !.symbol = symbol, !.exchange_name = exchange_name]
           \* line 103: exchange = self.exchanges[exchange_name]
           fr == [fr0 EXCEPT !.registry = handles]
       IN  IF trading_disabled(enable_trading)
           THEN Return(w, sig, fr0, Result(FALSE, "disabled", ""))
           ELSE IF exchange_name \notin exchanges
           THEN Return(w, sig, fr0, Result(FALSE, "not_connected", ""))
           ELSE IF compound_mode_raises(sig)
           THEN caught(w, sig, fr, "TypeError")
           ELSE IF compound_mode(sig)
           THEN Goto(w, "fetch_balance", sig, fr)
           ELSE dispatch(w, sig, fr)
    /\ received' = [received EXCEPT ![w] = sig]
    /\ calls' = [calls EXCEPT ![w] = <<>>]

\* webhook line 115: a worker takes a signal from the transport
execute_signal(w, sig) ==
    /\ execute_signal_call(w, sig)
    /\ UNCHANGED <<side_vars, enable_trading, exchanges, positions>>

\* test_signal lines 317-325: the webhook's flag is saved and cleared, then
\* the engine is called
test_signal(w, sig) ==
    /\ execute_signal_call(w, sig)
    /\ testing' = [testing EXCEPT ![w] = [active |-> TRUE, original_state |-> server_config]]
    /\ server_config' = FALSE
    /\ UNCHANGED <<pure_vars, registry_vars, enable_trading, exchanges, positions>>

\* execute_signal lines 107-126: exchange.fetch_balance() and the amount
fetch_balance(w, ok, free) ==
    /\ pc[w] = "fetch_balance"
    /\ Record(w, <<Call("fetch_balance", market_of(frame[w]), 0, FALSE, ok)>>)
    /\ LET sig == signal[w]
           amount == balance_amount(ok, free, sig.percent)
           fr == [frame[w] EXCEPT !.balance_ok = balance_found(ok, free),
                                  !.free_usdt = IF balance_found(ok, free)
                                                  THEN free["USDT"] ELSE 0]
       IN  dispatch(w, Put(sig, "amount", amount), fr)
    /\ UNCHANGED <<side_vars, enable_trading, exchanges, positions, received>>

\* _get_position(exchange, symbol, side) with fetch_positions raising or not
\* fetch_positions answers: the call does not raise, and the venue has the
\* market and reports positions at all
positions_fetched(fr, ok) ==
    ok /\ is_futures(fr.exchange_name) /\ market_of(fr) \in Markets

position_query(fr, side, ok) ==
    IF positions_fetched(fr, ok)
    THEN get_position(fetch_positions(market_of(fr)), side)
    ELSE None

\* entry handlers line 206 / 284: long_position = _get_position(.., 'long')
entry_get_long(w, ok) ==
    /\ pc[w] = "entry_get_long"
    /\ LET fr == frame[w]
       IN  /\ Record(w, load_markets_calls(fr)
                        \o <<Call("fetch_positions", market_of(fr), 0, FALSE,
                                 positions_fetched(fr, ok))>>)
           /\ Goto(w, "entry_get_short", signal[w],
                   [fr EXCEPT !.long_position = position_query(fr, "long", ok)])
    /\ UNCHANGED <<side_vars, enable_trading, exchanges, positions, received>>

\* entry handlers lines 207-233 / 285-311: short_position, the duplicate
\* guard and the flip
entry_get_short(w, ok) ==
    /\ pc[w] = "entry_get_short"
    /\ LET fr0 == frame[w]
           fr == [fr0 EXCEPT !.short_position = position_query(fr0, "short", ok)]
           same == same_direction_position(fr.handler, fr.long_position, fr.short_position)
           opposite == opposite_direction_position(fr.handler, fr.long_position,
                                                   fr.short_position)
           opposite_side == IF fr.handler = "long_entry" THEN "short" ELSE "long"
       IN  /\ Record(w, load_markets_calls(fr)
                        \o <<Call("fetch_positions", market_of(fr), 0, FALSE,
                                 positions_fetched(fr, ok))>>)
           /\ IF same # None
              THEN Return(w, signal[w], fr, Result(FALSE, "already_open", ""))
              ELSE IF opposite # None
              THEN exit_begin(w, signal[w],
                              [fr EXCEPT !.nested = TRUE, !.closes = @ + 1],
                              opposite_side, [percent |-> 100])
              ELSE entry_continue(w, signal[w], fr)
    /\ UNCHANGED <<side_vars, enable_trading, exchanges, positions, received>>

\* exit handlers lines 371-397 / 445-471: the position and the close quantity
exit_get_position(w, ok) ==
    /\ pc[w] = "exit_get_position"
    /\ LET fr == frame[w]
           position == position_query(fr, fr.exit_side, ok)
           position_size == position.contracts
       IN  /\ Record(w, load_markets_calls(fr)
                        \o <<Call("fetch_positions", market_of(fr), 0, FALSE,
                                 positions_fetched(fr, ok))>>)
           /\ IF position = None
              THEN exit_return(w, signal[w], [fr EXCEPT !.exit_position = None],
                               no_position_result)
              ELSE \E raw \in raw_close_quantity(position_size, fr.percent) :
                     IF close_quantity_rejected(raw)
                     THEN exit_return(w, signal[w],
                                      [fr EXCEPT !.exit_position = position,
                                                 !.position_size = position_size,
                                                 !.close_quantity = raw],
                                      Result(FALSE, "quantity_not_positive", ""))
                     ELSE Goto(w, "exit_order", signal[w],
                               [fr EXCEPT !.exit_position = position,
                                          !.position_size = position_size,
                                          !.close_quantity =
                                              clamp_close_quantity(raw, position_size)])
    /\ UNCHANGED <<side_vars, enable_trading, exchanges, positions, received>>

\* exit handlers lines 399-430 / 473-504: the reduce-only market order
exit_order(w, ok) ==
    /\ pc[w] = "exit_order"
    /\ LET fr == frame[w]
           market == market_of(fr)
           op == IF fr.exit_side = "long"
                 THEN "create_market_sell_order"
                 ELSE "create_market_buy_order"
           filled == ok /\ venue_accepts_reduce(fr.exchange_name, market,
                                                  fr.exit_side, fr.close_quantity)
       IN  /\ Record(w, load_markets_calls(fr)
                        \o <<Call(op, market, fr.close_quantity, TRUE, filled)>>)
           /\ positions' = IF filled
                           THEN filled_reduce(market, fr.exit_side, fr.close_quantity)
                           ELSE positions
           /\ IF filled
              THEN exit_return(w, signal[w], fr, Result(TRUE, "exit_ok", ""))
              ELSE exit_failed(w, signal[w], fr)
    /\ UNCHANGED <<side_vars, enable_trading, exchanges, received>>

\* entry handlers lines 236-242 / 314-320: best-effort set_leverage
set_leverage(w, ok) ==
    /\ pc[w] = "set_leverage"
    /\ LET fr == frame[w]
       IN  /\ Record(w, load_markets_calls(fr)
                        \o <<Call("set_leverage", market_of(fr), fr.leverage, FALSE, ok)>>)
           /\ after_set_leverage(w, signal[w], fr, ok)
    /\ UNCHANGED <<side_vars, enable_trading, exchanges, positions, received>>

\* entry handlers lines 244-251 / 322-329: the price and the quantity
fetch_ticker(w, ok, last) ==
    /\ pc[w] = "fetch_ticker"
    /\ LET fr == frame[w]
       IN  /\ Record(w, <<Call("fetch_ticker", market_of(fr), 0, FALSE, ok)>>)
           /\ IF ~ok
              THEN entry_failed(w, signal[w], fr)
              ELSE \E quantity \in entry_quantity(fr.amount_usdt, fr.leverage, last) :
                     Goto(w, "entry_order", signal[w],
                          [fr EXCEPT !.current_price = last, !.quantity = quantity])
    /\ UNCHANGED <<side_vars, enable_trading, exchanges, positions, received>>

\* entry handlers lines 253-278 / 331-356: the opening market order
entry_order(w, ok) ==
    /\ pc[w] = "entry_order"
    /\ LET fr == frame[w]
           market == market_of(fr)
           side == IF fr.handler = "long_entry" THEN "long" ELSE "short"
           op == IF fr.handler = "long_entry"
                 THEN "create_market_buy_order"
                 ELSE "create_market_sell_order"
           filled == ok /\ venue_accepts_open(fr.exchange_name, market, side, fr.quantity)
       IN  /\ Record(w, <<Call(op, market, fr.quantity, FALSE, filled)>>)
           /\ positions' = IF filled
                           THEN filled_open(fr.exchange_name, market, side, fr.quantity)
                           ELSE positions
           /\ IF filled
              THEN Return(w, signal[w], fr, Result(TRUE, "entry_ok", ""))
              ELSE entry_failed(w, signal[w], fr)
    /\ UNCHANGED <<side_vars, enable_trading, exchanges, received>>

\* webhook lines 117-126: the Result goes back to the caller as the response
\* the worker is free for the next request
release(w) ==
    /\ pc' = [pc EXCEPT ![w] = "idle"]
    /\ signal' = [signal EXCEPT ![w] = NoSignal]
    /\ frame' = [frame EXCEPT ![w] = EmptyFrame]
    /\ calls' = [calls EXCEPT ![w] = <<>>]
    /\ result' = [result EXCEPT ![w] = NoResult]
    /\ received' = [received EXCEPT ![w] = NoSignal]

respond(w) ==
    /\ pc[w] = "done"
    /\ ~testing[w].active
    /\ release(w)
    /\ UNCHANGED <<side_vars, enable_trading, exchanges, positions>>

\* test_signal lines 327-334: the webhook's flag is restored and the
\* validation answered
test_respond(w) ==
    /\ pc[w] = "done"
    /\ testing[w].active
    /\ server_config' = testing[w].original_state
    /\ testing' = [testing EXCEPT ![w] = [active |-> FALSE, original_state |-> FALSE]]
    /\ release(w)
    /\ UNCHANGED <<pure_vars, registry_vars, enable_trading, exchanges, positions>>

(***************************************************************************)
(* Credentials and the registry                                            *)
(***************************************************************************)
\* the dict of a store without credentials
NoSecrets == [e \in ExchangeNames |-> 0]

\* config_manager.load_secrets lines 82-96: the dict in the secrets file, or
\* {} when the file cannot be read or decrypted
load_secrets(decrypted) == IF decrypted THEN secrets ELSE NoSecrets

\* config_manager.get_api_keys lines 98-101: secrets.get(exchange), 0 for None
get_api_keys(exchange, decrypted) == load_secrets(decrypted)[exchange]

\* config_manager.save_api_keys lines 51-67: the dict that was loaded, with
\* the new keys of the exchange, is written in place of the file
saved_secrets(exchange, keys, decrypted) ==
    [load_secrets(decrypted) EXCEPT ![exchange] = keys]

\* webhook_server.save_api_keys lines 274-287: new keys are stored for one
\* exchange, then initialize_exchanges is called
save_api_keys(e, decrypted) ==
    /\ rebuild.pc = "idle"
    /\ rebuild.built < MaxRebuilds
    /\ secrets' = saved_secrets(e, rebuild.built + 1, decrypted)
    /\ rebuild' = [pc |-> "binance", built |-> rebuild.built + 1]
    /\ UNCHANGED <<pure_vars, server_vars, handles, enable_trading, exchanges, positions,
                   pc, received, signal, frame, calls, result>>

\* self.exchanges[name] = ccxt.<name>({...}) when keys are stored and the
\* constructor does not raise; the dict is left as it is otherwise
registered(name, decrypted, ok) ==
    LET keys == get_api_keys(name, decrypted)
    IN  IF keys # 0 /\ ok
        THEN [handles EXCEPT ![name] = [keys |-> keys, built |-> rebuild.built]]
        ELSE handles

\* initialize_exchanges lines 29-42: the binance handle
initialize_binance(decrypted, ok) ==
    /\ rebuild.pc = "binance"
    /\ handles' = registered("binance", decrypted, ok)
    /\ exchanges' = {e \in ExchangeNames : handles'[e] # NoHandle}
    /\ rebuild' = [rebuild EXCEPT !.pc = "upbit"]
    /\ UNCHANGED <<pure_vars, server_vars, secrets, enable_trading, positions,
                   pc, received, signal, frame, calls, result>>

\* initialize_exchanges lines 44-56: the upbit handle
initialize_upbit(decrypted, ok) ==
    /\ rebuild.pc = "upbit"
    /\ handles' = registered("upbit", decrypted, ok)
    /\ exchanges' = {e \in ExchangeNames : handles'[e] # NoHandle}
    /\ rebuild' = [rebuild EXCEPT !.pc = "idle"]
    /\ UNCHANGED <<pure_vars, server_vars, secrets, enable_trading, positions,
                   pc, received, signal, frame, calls, result>>

(***************************************************************************)
(* Inputs                                                                  *)
(***************************************************************************)
\* a key that may be missing from the signal dict
Optional(key, values) == {<<>>} \cup {key :> v : v \in values}

Actions == {"long_entry", "short_entry", "long_exit", "short_exit", "entry", "hold"}
Percents == {0, 5, 50, 100, 150}
Amounts == {0, Usdt(100)}
Leverages == {2}
Prices == {50, 100}
Balances == {"USDT" :> Usdt(1000), "BNB" :> 0}

\* signals of the sequential specification; the last ones come without an
\* action
Signals ==
    {[action |-> a] @@ e @@ l @@ m @@ p :
        a \in Actions,
        e \in Optional("exchange", {"upbit"}),
        l \in Optional("leverage", Leverages),
        m \in Optional("amount", Amounts),
        p \in Optional("percent", Percents)}
    \cup {[symbol |-> "BTCUSDT"] @@ m @@ p :
        m \in Optional("amount", {Usdt(100)}),
        p \in Optional("percent", {50})}

\* signals of the concurrent specification: entries with a fixed amount on
\* the futures venue
ConcSignals ==
    {[action |-> a, symbol |-> s, amount |-> Usdt(100)] @@ e :
        a \in {"long_entry", "short_entry"},
        s \in {"BTCUSDT", "BTCUSDT.P", "ETHUSDT"},
        e \in Optional("exchange", {"Binance"})}

\* free balances of the sizing specification: whole amounts, amounts whose
\* share is not a whole number of cents, and one below the minimum order
FreeBalances ==
    {Usdt(5), Usdt(100), Usdt(200), Usdt(1000), Usdt(1000) + 5, Usdt(1234) + 56}
SizingBalances == {"USDT" :> b : b \in FreeBalances} \cup {"BNB" :> 0}
SizingPercents == {1, 5, 33, 100}

\* signals of the sizing specification: entries in percent mode
SizingSignals ==
    {[action |-> a, percent |-> p] : a \in {"long_entry", "short_entry"},
                                   p \in SizingPercents}

\* signals of the fair specification: every action, with and without percent
LiveSignals ==
    {[action |-> a] @@ p : a \in Actions, p \in Optional("percent", {50})}

\* signals of the specification without failures: entries with a fixed
\* amount and exits on the futures venue, on two markets
FilledSignals ==
    {[action |-> a, symbol |-> s, amount |-> Usdt(100)] @@ l @@ p :
        a \in {"long_entry", "short_entry", "long_exit", "short_exit"},
        s \in Markets,
        l \in Optional("leverage", Leverages),
        p \in Optional("percent", {50, 100})}

\* entries of the list fetch_positions returns
FetchedPositions ==
    {[side |-> side, contracts |-> c] : side \in Sides, c \in {0, Contracts(1)}}

\* tickers as alerts write them, with and without the perpetual suffix
Tickers ==
    {"GASUSDT.P", "GASUSDT", "gasusdt.p", "gasusdt", "GasUsdt.P", "BTCUSDT.P",
     "GAS/USDT:USDT", "GASUSD.P", "USDT", "GASBTC"}

\* market tables of a futures venue; an entry may lack its id
MarketTables ==
    { MarketTable,
      ("GAS/USDT:USDT" :> [id |-> "GASUSDT"]) @@ MarketTable,
      ("GAS/USDT:USDT" :> [id |-> "GASUSDT_PERP"]),
      ("GASUSDT" :> [id |-> "GAS-USDT"]) @@ ("GAS/USDT:USDT" :> [id |-> "GASUSDT"]),
      ("GAS/USDT:USDT" :> [active |-> TRUE]) }

(***************************************************************************)
(* Specifications                                                          *)
(***************************************************************************)
\* the engine after TradingEngine.__init__, no signal taken yet
engine_init ==
    /\ enable_trading \in BOOLEAN
    /\ exchanges \in SUBSET ExchangeNames
    /\ positions = [m \in Markets |-> [s \in Sides |-> 0]]
    /\ pc = [w \in Workers |-> "idle"]
    /\ received = [w \in Workers |-> NoSignal]
    /\ signal = [w \in Workers |-> NoSignal]
    /\ frame = [w \in Workers |-> EmptyFrame]
    /\ calls = [w \in Workers |-> <<>>]
    /\ result = [w \in Workers |-> NoResult]

\* no call of _normalize_symbol on its own
NotNormalizing ==
    [exchange_name |-> "", symbol |-> "", markets |-> MarketTable, load_ok |-> TRUE,
     returned |-> "", called |-> FALSE]

\* webhook_server line 45: the server loads the configuration the engine
\* loaded, into a dict of its own; no request is being tested
server_init ==
    /\ server_config = enable_trading
    /\ testing = [w \in Workers |-> [active |-> FALSE, original_state |-> FALSE]]

\* TradingEngine.__init__ lines 23-25: the first call of initialize_exchanges
\* has built a handle for every exchange with stored keys
registry_init ==
    /\ secrets = [e \in ExchangeNames |-> IF e \in exchanges THEN 1 ELSE 0]
    /\ handles = [e \in ExchangeNames |->
                     IF e \in exchanges THEN [keys |-> 1, built |-> 1] ELSE NoHandle]
    /\ rebuild = [pc |-> "idle", built |-> 1]

\* no call of _get_position on its own
NotResolving == [fetched |-> <<>>, side |-> "", returned |-> None, called |-> FALSE]

Init ==
    /\ engine_init
    /\ server_init
    /\ registry_init
    /\ normalized = NotNormalizing
    /\ resolved = NotResolving

\* one worker, one signal after the other, gateway calls may fail
Next ==
    \/ \E sig \in Signals : execute_signal(1, sig)
    \/ \E ok \in BOOLEAN, free \in Balances : fetch_balance(1, ok, free)
    \/ \E ok \in BOOLEAN : entry_get_long(1, ok)
    \/ \E ok \in BOOLEAN : entry_get_short(1, ok)
    \/ \E ok \in BOOLEAN : exit_get_position(1, ok)
    \/ \E ok \in BOOLEAN : exit_order(1, ok)
    \/ \E ok \in BOOLEAN : set_leverage(1, ok)
    \/ \E ok \in BOOLEAN, last \in Prices : fetch_ticker(1, ok, last)
    \/ \E ok \in BOOLEAN : entry_order(1, ok)
    \/ respond(1)

Spec == Init /\ [][Next]_vars

\* two workers, one signal each, trading enabled, every gateway call succeeds
InitConc ==
    /\ Init
    /\ enable_trading
    /\ exchanges = ExchangeNames

NextConc ==
    \/ \E w \in Workers, sig \in ConcSignals : execute_signal(w, sig)
    \/ \E w \in Workers : entry_get_long(w, TRUE)
    \/ \E w \in Workers : entry_get_short(w, TRUE)
    \/ \E w \in Workers : exit_get_position(w, TRUE)
    \/ \E w \in Workers : exit_order(w, TRUE)
    \/ \E w \in Workers : set_leverage(w, TRUE)
    \/ \E w \in Workers, last \in Prices : fetch_ticker(w, TRUE, last)
    \/ \E w \in Workers : entry_order(w, TRUE)

SpecConc == InitConc /\ [][NextConc]_vars

\* one worker, entries sized by a percent of the free balance; only the
\* balance lookup may fail
InitSizing ==
    /\ Init
    /\ enable_trading
    /\ exchanges = ExchangeNames

NextSizing ==
    \/ \E sig \in SizingSignals : execute_signal(1, sig)
    \/ \E ok \in BOOLEAN, free \in SizingBalances : fetch_balance(1, ok, free)
    \/ entry_get_long(1, TRUE)
    \/ entry_get_short(1, TRUE)
    \/ exit_get_position(1, TRUE)
    \/ exit_order(1, TRUE)
    \/ set_leverage(1, TRUE)
    \/ \E last \in Prices : fetch_ticker(1, TRUE, last)
    \/ entry_order(1, TRUE)
    \/ respond(1)

SpecSizing == InitSizing /\ [][NextSizing]_vars

\* one worker, one signal after the other, no gateway call raises; the venue
\* still turns down an order below one step or over its limit
InitFilled ==
    /\ Init
    /\ enable_trading
    /\ exchanges = ExchangeNames

NextFilled ==
    \/ \E sig \in FilledSignals : execute_signal(1, sig)
    \/ entry_get_long(1, TRUE)
    \/ entry_get_short(1, TRUE)
    \/ exit_get_position(1, TRUE)
    \/ exit_order(1, TRUE)
    \/ set_leverage(1, TRUE)
    \/ \E last \in Prices : fetch_ticker(1, TRUE, last)
    \/ entry_order(1, TRUE)
    \/ respond(1)

SpecFilled == InitFilled /\ [][NextFilled]_vars

\* one worker whose gateway calls all return or fail in the end: a call
\* that is under way takes its next step
GatewayStep(w) ==
    \/ \E ok \in BOOLEAN, free \in Balances : fetch_balance(w, ok, free)
    \/ \E ok \in BOOLEAN : entry_get_long(w, ok)
    \/ \E ok \in BOOLEAN : entry_get_short(w, ok)
    \/ \E ok \in BOOLEAN : exit_get_position(w, ok)
    \/ \E ok \in BOOLEAN : exit_order(w, ok)
    \/ \E ok \in BOOLEAN : set_leverage(w, ok)
    \/ \E ok \in BOOLEAN, last \in Prices : fetch_ticker(w, ok, last)
    \/ \E ok \in BOOLEAN : entry_order(w, ok)

NextLive ==
    \/ \E sig \in LiveSignals : execute_signal(1, sig)
    \/ GatewayStep(1)
    \/ respond(1)

SpecLive == Init /\ [][NextLive]_vars /\ WF_vars(GatewayStep(1))

\* POST /api/test: one worker validates signals, gateway calls may fail
NextTest ==
    \/ \E sig \in LiveSignals : test_signal(1, sig)
    \/ GatewayStep(1)
    \/ test_respond(1)

SpecTest == Init /\ [][NextTest]_vars

\* signals of the registry specification: exits on either venue
RegistrySignals ==
    {[action |-> "long_exit"] @@ e : e \in Optional("exchange", {"upbit"})}

\* keys are saved while one worker handles signals
NextRegistry ==
    \/ \E e \in ExchangeNames, decrypted \in BOOLEAN : save_api_keys(e, decrypted)
    \/ \E decrypted, ok \in BOOLEAN : initialize_binance(decrypted, ok)
    \/ \E decrypted, ok \in BOOLEAN : initialize_upbit(decrypted, ok)
    \/ \E sig \in RegistrySignals : execute_signal(1, sig)
    \/ \E ok \in BOOLEAN : exit_get_position(1, ok)
    \/ respond(1)

SpecRegistry == Init /\ [][NextRegistry]_vars

\* _normalize_symbol on its own: one call on arbitrary arguments
InitNormalize ==
    /\ engine_init
    /\ server_init
    /\ registry_init
    /\ enable_trading
    /\ exchanges = ExchangeNames
    /\ resolved = NotResolving
    /\ \E e \in ExchangeNames, t \in Tickers, m \in MarketTables, ok \in BOOLEAN :
          normalized = [exchange_name |-> e, symbol |-> t, markets |-> m, load_ok |-> ok,
                        returned |-> "", called |-> FALSE]

\* TradingEngine._normalize_symbol(exchange, symbol)
call_normalize_symbol ==
    /\ ~normalized.called
    /\ normalized.symbol # ""
    /\ normalized' =
          [normalized EXCEPT
              !.called = TRUE,
              !.returned = normalize_symbol(normalized.exchange_name, normalized.symbol,
                                            normalized.markets, normalized.load_ok)]
    /\ UNCHANGED <<enable_trading, exchanges, positions, pc, received, signal, frame,
                   calls, result, server_vars, registry_vars, resolved>>

NextNormalize == call_normalize_symbol

SpecNormalize == InitNormalize /\ [][NextNormalize]_vars

\* _get_position on its own: one call on an arbitrary list of positions
InitResolve ==
    /\ engine_init
    /\ server_init
    /\ registry_init
    /\ enable_trading
    /\ exchanges = ExchangeNames
    /\ normalized = NotNormalizing
    /\ \E n \in 0..MaxFetched, side \in Sides :
          \E fetched \in [1..n -> FetchedPositions] :
              resolved = [fetched |-> fetched, side |-> side, returned |-> None,
                          called |-> FALSE]

\* TradingEngine._get_position lines 193-197, fetch_positions having answered
call_get_position ==
    /\ ~resolved.called
    /\ resolved.side # ""
    /\ resolved' = [resolved EXCEPT
                        !.called = TRUE,
                        !.returned = get_position(resolved.fetched, resolved.side)]
    /\ UNCHANGED <<enable_trading, exchanges, positions, pc, received, signal, frame,
                   calls, result, server_vars, registry_vars, normalized>>

NextResolve == call_get_position

SpecResolve == InitResolve /\ [][NextResolve]_vars

(***************************************************************************)
(* Vocabulary of the properties                                            *)
(***************************************************************************)
OrderOps == {"create_market_buy_order", "create_market_sell_order"}
EntryActions == {"long_entry", "short_entry"}
ExitActions == {"long_exit", "short_exit"}

Ops(w) == {calls[w][i].op : i \in DOMAIN calls[w]}
Orders(w) == {i \in DOMAIN calls[w] : calls[w][i].op \in OrderOps}
OpeningOrders(w) == {i \in Orders(w) : ~calls[w][i].reduceOnly}
ReduceOrders(w) == {i \in Orders(w) : calls[w][i].reduceOnly}

\* the opening order op of an entry handler
OpeningOp(handler) ==
    IF handler = "long_entry" THEN "create_market_buy_order" ELSE "create_market_sell_order"

Failed(w) == pc[w] = "done" /\ ~result[w].success
FailsIfDone(w) == pc[w] = "done" => ~result[w].success
NoGatewayCall(w) == calls[w] = <<>>

(***************************************************************************)
(* C1: two concurrent entries of the same direction for the same           *)
(* (exchange, symbol) never both place an opening market order that the     *)
(* venue fills.                                                             *)
(***************************************************************************)
C1_NoDuplicateEntry ==
    \A w1, w2 \in Workers :
        (/\ w1 # w2
         /\ frame[w1].handler \in EntryActions
         /\ frame[w1].handler = frame[w2].handler
         /\ frame[w1].exchange_name = frame[w2].exchange_name
         /\ market_of(frame[w1]) = market_of(frame[w2]))
        => ~(/\ \E i \in OpeningOrders(w1) : calls[w1][i].ok
             /\ \E j \in OpeningOrders(w2) : calls[w2][j].ok)

(***************************************************************************)
(* C2: an entry whose position query reported an open position of its own  *)
(* direction fails and places no order of its opening kind (no             *)
(* create_market_buy_order for long_entry, no create_market_sell_order for  *)
(* short_entry).                                                            *)
(***************************************************************************)
SameDirectionReported(w) ==
    /\ frame[w].handler \in EntryActions
    /\ pc[w] \notin {"entry_get_long", "entry_get_short"}
    /\ IF frame[w].handler = "long_entry"
       THEN frame[w].long_position # None
       ELSE frame[w].short_position # None

C2_DuplicateEntryBlocked ==
    \A w \in Workers :
        SameDirectionReported(w) =>
            /\ Failed(w)
            /\ OpeningOp(frame[w].handler) \notin Ops(w)

C2_Witness ==
    /\ SameDirectionReported(1)
    /\ frame[1].handler = "long_entry"
    /\ frame[1].long_position.contracts > 0
    /\ result[1].message = "already_open"

(***************************************************************************)
(* C3: an entry that finds only the opposite position runs exactly one      *)
(* exit of that side with percent 100 before its opening order; when that   *)
(* close fails, no opening order is placed and the Result fails carrying    *)
(* the close failure message.                                               *)
(***************************************************************************)
OppositeReported(w) ==
    /\ frame[w].handler \in EntryActions
    /\ pc[w] \notin {"entry_get_long", "entry_get_short"}
    /\ IF frame[w].handler = "long_entry"
       THEN frame[w].long_position = None /\ frame[w].short_position # None
       ELSE frame[w].short_position = None /\ frame[w].long_position # None

C3_FlipClosesFirst ==
    \A w \in Workers :
        /\ OppositeReported(w) =>
              /\ frame[w].nested
              /\ frame[w].closes = 1
              /\ frame[w].percent = 100
              /\ frame[w].exit_side =
                    (IF frame[w].handler = "long_entry" THEN "short" ELSE "long")
              /\ OpeningOrders(w) # {} => frame[w].close_result.success
              /\ (frame[w].close_result # NoResult /\ ~frame[w].close_result.success) =>
                    /\ Failed(w)
                    /\ OpeningOrders(w) = {}
                    /\ result[w].message = "close_failed"
                    /\ result[w].detail = frame[w].close_result.message
        /\ (frame[w].handler \in EntryActions /\ ~OppositeReported(w)) =>
              frame[w].closes = 0

C3_Witness ==
    /\ OppositeReported(1)
    /\ frame[1].handler = "long_entry"
    /\ frame[1].close_result.message = "exit_failed"
    /\ result[1].message = "close_failed"
    /\ \E i \in ReduceOrders(1) : ~calls[1][i].ok

(***************************************************************************)
(* C4: an exit signal whose position query finds no open position of its   *)
(* side returns success with the informational message and places no order. *)
(***************************************************************************)
ExitFoundNothing(w) ==
    /\ frame[w].handler \in ExitActions
    /\ "fetch_positions" \in Ops(w)
    /\ frame[w].exit_position = None

C4_ExitWithoutPosition ==
    \A w \in Workers :
        ExitFoundNothing(w) =>
            /\ pc[w] = "done"
            /\ result[w].success
            /\ result[w].message = "no_position"
            /\ Orders(w) = {}

C4_Witness ==
    /\ ExitFoundNothing(1)
    /\ frame[1].handler = "long_exit"
    /\ positions["BTCUSDT"]["long"] = 0
    /\ calls[1][Len(calls[1])].ok
    /\ result[1].success

(***************************************************************************)
(* C5: a signal whose percent is <= 0 or > 100 is rejected with a failed    *)
(* Result and without any gateway call, for exit sizing and for             *)
(* percent-of-balance entry sizing alike.                                   *)
(***************************************************************************)
PercentSized(sig) ==
    /\ "percent" \in DOMAIN sig
    /\ \/ action_of(sig) \in ExitActions
       \/ action_of(sig) \in EntryActions /\ "amount" \notin DOMAIN sig

C5_BadPercentRejected ==
    \A w \in Workers :
        (/\ pc[w] # "idle"
         /\ enable_trading
         /\ frame[w].exchange_name \in exchanges
         /\ PercentSized(received[w])
         /\ percent_out_of_range(received[w].percent))
        => /\ FailsIfDone(w)
           /\ NoGatewayCall(w)

(***************************************************************************)
(* C6: while trading is disabled every signal returns the failed            *)
(* "disabled" Result and no gateway call is made.                           *)
(***************************************************************************)
C6_DisabledTouchesNothing ==
    ~enable_trading =>
        \A w \in Workers :
            /\ NoGatewayCall(w)
            /\ pc[w] \in {"idle", "done"}
            /\ pc[w] = "done" => result[w] = Result(FALSE, "disabled", "")

C6_Witness ==
    /\ ~enable_trading
    /\ pc[1] = "done"
    /\ action_of(received[1]) = "long_entry"
    /\ "binance" \in exchanges
    /\ result[1].message = "disabled"

(***************************************************************************)
(* C7: a signal whose action is none of long_entry, short_entry, long_exit, *)
(* short_exit is rejected with a failed Result before any gateway call,     *)
(* whatever its other fields are.                                           *)
(***************************************************************************)
C7_UnknownActionRejected ==
    \A w \in Workers :
        (pc[w] # "idle" /\ action_of(received[w]) \notin EntryActions \cup ExitActions)
        => /\ FailsIfDone(w)
           /\ NoGatewayCall(w)

(***************************************************************************)
(* C8: every market order that reaches the venue, opening or reduce-only,   *)
(* has a quantity > 0.                                                      *)
(***************************************************************************)
C8_OrderQuantityPositive ==
    \A w \in Workers : \A i \in Orders(w) : calls[w][i].qty > 0

(***************************************************************************)
(* C9 as stated: an entry signal with neither amount nor percent fails and  *)
(* makes no gateway call.                                                   *)
(***************************************************************************)
Unsized(sig) ==
    /\ action_of(sig) \in EntryActions
    /\ "amount" \notin DOMAIN sig
    /\ "percent" \notin DOMAIN sig

C10_CloseQuantityBounded ==
    \A w \in Workers : \A i \in ReduceOrders(w) :
        /\ calls[w][i].qty > 0
        /\ calls[w][i].qty <= frame[w].position_size
        /\ frame[w].position_size = frame[w].exit_position.contracts
        /\ frame[w].percent > 0 /\ frame[w].percent <= 100

C10_Witness ==
    /\ frame[1].handler = "long_exit"
    /\ frame[1].percent = 50
    /\ frame[1].position_size = Contracts(2)
    /\ \E i \in ReduceOrders(1) : calls[1][i].qty = Contracts(1) /\ calls[1][i].ok
    /\ positions["BTCUSDT"]["long"] = 1

(***************************************************************************)
(* C11 as stated: in percent mode with a free USDT balance, the amount      *)
(* committed to the entry equals free * percent / 100 when that value is    *)
(* >= 10, and 11 when it is < 10.                                           *)
(***************************************************************************)
BalanceSized(w) ==
    /\ compound_mode(received[w])
    /\ "fetch_balance" \in Ops(w)
    /\ frame[w].balance_ok

\* free * percent / 100 in hundredths of a cent
ShareX100(w) == frame[w].free_usdt * received[w].percent

C11_AmountIsExactShare ==
    \A w \in Workers :
        BalanceSized(w) =>
            IF ShareX100(w) >= Usdt(10) * 100
            THEN signal[w].amount * 100 = ShareX100(w)
            ELSE signal[w].amount = Usdt(11)

(***************************************************************************)
(* C11 amended: the amount committed to the entry is free * percent / 100   *)
(* rounded to two decimals (whole cents, so within half a cent of the       *)
(* share) when the share is >= 10, and 11 when it is < 10; the entry        *)
(* handler sizes its order with exactly that amount.                        *)
(***************************************************************************)
C11_AmountIsRoundedShare ==
    \A w \in Workers :
        BalanceSized(w) =>
            /\ IF ShareX100(w) >= Usdt(10) * 100
               THEN /\ 2 * (signal[w].amount * 100 - ShareX100(w)) <= 100
                    /\ 2 * (ShareX100(w) - signal[w].amount * 100) <= 100
               ELSE signal[w].amount = Usdt(11)
            /\ pc[w] \in {"set_leverage", "fetch_ticker", "entry_order"} =>
                  frame[w].amount_usdt = signal[w].amount
            /\ \A i \in OpeningOrders(w) :
                  calls[w][i].qty \in entry_quantity(signal[w].amount, frame[w].leverage,
                                                     frame[w].current_price)

C11_Witness ==
    /\ BalanceSized(1)
    /\ frame[1].free_usdt = Usdt(1000) + 5
    /\ received[1].percent = 5
    /\ signal[1].amount = Usdt(50)
    /\ \E i \in OpeningOrders(1) : calls[1][i].ok /\ calls[1][i].qty = Contracts(1)

(***************************************************************************)
(* C12: in percent mode, when fetch_balance fails or reports no free USDT,  *)
(* the signal is not aborted: the amount is the default 100 and the call    *)
(* goes on into the handler of its action, whose first step is the          *)
(* position query.                                                          *)
(***************************************************************************)
BalanceMissing(w) ==
    /\ compound_mode(received[w])
    /\ received[w].action \in EntryActions
    /\ "fetch_balance" \in Ops(w)
    /\ ~frame[w].balance_ok

C12_BalanceFallback ==
    \A w \in Workers :
        BalanceMissing(w) =>
            /\ signal[w].amount = Usdt(100)
            /\ frame[w].handler = received[w].action
            /\ pc[w] # "fetch_balance"
            /\ pc[w] = "done" => "fetch_positions" \in Ops(w)
            /\ pc[w] \in {"set_leverage", "fetch_ticker", "entry_order"} =>
                  frame[w].amount_usdt = Usdt(100)

C12_Witness ==
    /\ BalanceMissing(1)
    /\ ~calls[1][1].ok
    /\ pc[1] = "done"
    /\ result[1].message = "entry_ok"
    /\ \E i \in OpeningOrders(1) : calls[1][i].ok /\ calls[1][i].qty = Contracts(2)

(***************************************************************************)
(* C13: execute_signal always returns a well-formed Result and lets no      *)
(* exception through: whatever the signal and whichever gateway calls fail, *)
(* a finished call has a Result with a boolean success and a message, no    *)
(* call ends anywhere else, and once a price fetch or an order placement    *)
(* has failed the call is finished with success = false.                    *)
(***************************************************************************)
Labels ==
    {"idle", "fetch_balance", "entry_get_long", "entry_get_short", "exit_get_position",
     "exit_order", "set_leverage", "fetch_ticker", "entry_order", "done"}

Messages ==
    {"disabled", "not_connected", "error", "unknown_action", "already_open",
     "close_failed", "percent_out_of_range", "no_position", "quantity_not_positive",
     "exit_ok", "exit_failed", "entry_ok", "entry_failed"}

WellFormed(res) ==
    /\ DOMAIN res = {"success", "message", "detail"}
    /\ res.success \in BOOLEAN
    /\ res.message \in Messages

FailedCalls(w, ops) == {i \in DOMAIN calls[w] : calls[w][i].op \in ops /\ ~calls[w][i].ok}

C13_AlwaysWellFormedResult ==
    \A w \in Workers :
        /\ pc[w] \in Labels
        /\ pc[w] = "done" => WellFormed(result[w])
        /\ FailedCalls(w, OrderOps \cup {"fetch_ticker"}) # {} => Failed(w)

C13_Witness ==
    /\ pc[1] = "done"
    /\ FailedCalls(1, {"fetch_positions"}) # {}
    /\ FailedCalls(1, {"fetch_balance"}) # {}
    /\ FailedCalls(1, {"set_leverage"}) # {}
    /\ FailedCalls(1, {"fetch_ticker"}) # {}
    /\ result[1] = Result(FALSE, "entry_failed", "")

(***************************************************************************)
(* C14: every signal handed to execute_signal eventually produces exactly   *)
(* one Result, provided every gateway call returns or fails: a call under   *)
(* way reaches its return, every step takes it strictly further (nothing    *)
(* loops or is dispatched again, a flip runs its nested exit once), and a   *)
(* Result once returned is not changed.                                     *)
(***************************************************************************)
Rank(label) ==
    CASE label = "idle" -> 0
      [] label = "fetch_balance" -> 1
      [] label = "entry_get_long" -> 2
      [] label = "entry_get_short" -> 3
      [] label = "exit_get_position" -> 4
      [] label = "exit_order" -> 5
      [] label = "set_leverage" -> 6
      [] label = "fetch_ticker" -> 7
      [] label = "entry_order" -> 8
      [] label = "done" -> 9
      [] OTHER -> 10

Progresses(w) ==
    /\ pc[w] # "done" =>
          /\ Rank(pc'[w]) <= Rank("done")
          /\ pc'[w] # pc[w] => Rank(pc'[w]) > Rank(pc[w])
          /\ pc'[w] = pc[w] => UNCHANGED <<signal[w], frame[w], calls[w], result[w]>>
          /\ pc[w] # "idle" => received'[w] = received[w]
          /\ frame'[w].closes <= 1
    /\ pc[w] = "done" =>
          /\ pc'[w] \in {"done", "idle"}
          /\ pc'[w] = "done" => result'[w] = result[w] /\ received'[w] = received[w]

C14_EventuallyOneResult ==
    /\ \A w \in Workers : (pc[w] \notin {"idle", "done"}) ~> (pc[w] = "done")
    /\ [][\A w \in Workers : Progresses(w)]_vars

C14_Witness ==
    /\ pc[1] = "done"
    /\ frame[1].nested
    /\ frame[1].closes = 1
    /\ \E i \in ReduceOrders(1) : calls[1][i].ok
    /\ result[1].message = "entry_ok"

(***************************************************************************)
(* C15: execute_signal leaves every field of the caller's signal dict as    *)
(* it was received, so the signal echoed in the Result equals the signal    *)
(* received.                                                                *)
(***************************************************************************)
C15_SignalUnchanged ==
    \A w \in Workers :
        pc[w] # "idle" =>
            /\ DOMAIN signal[w] = DOMAIN received[w]
            /\ \A key \in DOMAIN received[w] : signal[w][key] = received[w][key]

(***************************************************************************)
(* C16: on a futures venue _normalize_symbol looks the ticker, with its     *)
(* ".P" suffix stripped and upper-cased, up in the market table; if it is   *)
(* absent and ends in USDT, it looks the unified form BASE/USDT:USDT up;    *)
(* it returns the id of the market matched and otherwise the stripped and   *)
(* upper-cased ticker.  It never raises: when load_markets fails, or the    *)
(* matched entry has no id, it returns the stripped and upper-cased ticker. *)
(***************************************************************************)
StrippedUpper(ticker) ==
    IF EndsWith(ticker, ".P")
    THEN Upper(SubSeq(ticker, 1, Len(ticker) - 2))
    ELSE Upper(ticker)

UnifiedForm(stripped) == SubSeq(stripped, 1, Len(stripped) - 4) \o "/USDT:USDT"

\* the market the lookups find: a set with at most one key
MatchedMarket(ticker, markets) ==
    LET stripped == StrippedUpper(ticker)
    IN  IF stripped \in DOMAIN markets THEN {stripped}
        ELSE IF EndsWith(stripped, "USDT") /\ UnifiedForm(stripped) \in DOMAIN markets
             THEN {UnifiedForm(stripped)}
        ELSE {}

C16_NormalizedSymbol ==
    (normalized.called /\ is_futures(normalized.exchange_name)) =>
        LET ticker == normalized.symbol
            markets == normalized.markets
            matched == MatchedMarket(ticker, markets)
        IN  /\ (normalized.load_ok /\ matched # {}) =>
                  \A key \in matched :
                      normalized.returned = IF "id" \in DOMAIN markets[key]
                                            THEN markets[key].id
                                            ELSE StrippedUpper(ticker)
            /\ (~normalized.load_ok \/ matched = {}) =>
                  normalized.returned = StrippedUpper(ticker)
            /\ (ticker = "GASUSDT.P" /\ normalized.load_ok
                    /\ DOMAIN markets = {"GAS/USDT:USDT"} /\ "id" \in DOMAIN markets["GAS/USDT:USDT"]) =>
                  normalized.returned = markets["GAS/USDT:USDT"].id
            /\ (ticker = "GASUSDT.P" /\ matched = {}) => normalized.returned = "GASUSDT"

C16_Witness ==
    /\ normalized.called
    /\ normalized.exchange_name = "binance"
    /\ normalized.symbol = "GASUSDT.P"
    /\ normalized.load_ok
    /\ DOMAIN normalized.markets = {"GAS/USDT:USDT"}
    /\ normalized.returned = "GASUSDT_PERP"

(***************************************************************************)
(* C17: while test_signal handles a request the engine makes no gateway     *)
(* call, and so places no order, for the submitted signal, whatever the     *)
(* signal and whatever the trading switch was before the request.           *)
(***************************************************************************)
C17_TestPlacesNoOrder ==
    \A w \in Workers :
        testing[w].active =>
            /\ NoGatewayCall(w)
            /\ Orders(w) = {}

(***************************************************************************)
(* C18: the registry is rebuilt wholesale when credentials change: a        *)
(* signal running while initialize_exchanges runs never reads a registry    *)
(* in which one exchange's handle is already the new one while another's    *)
(* is still the one of the earlier call.                                    *)
(***************************************************************************)
\* all handles of a registry were built by one call of initialize_exchanges
Wholesale(registry) ==
    \A e1, e2 \in ExchangeNames :
        (registry[e1] # NoHandle /\ registry[e2] # NoHandle) =>
            registry[e1].built = registry[e2].built

C18_RegistryRebuiltWholesale ==
    \A w \in Workers : pc[w] # "idle" => Wholesale(frame[w].registry)

(***************************************************************************)
(* C19: _get_position returns the first position of the fetched list that   *)
(* matches the side asked for and has contracts > 0, and no position only   *)
(* when the list has no such element; a zero-size entry of that side does   *)
(* not hide a later non-zero entry of the same side.                        *)
(***************************************************************************)
OpenOnSide(fetched, side) ==
    {i \in 1..Len(fetched) : fetched[i].side = side /\ fetched[i].contracts > 0}

C19_FirstOpenPosition ==
    resolved.called =>
        LET open == OpenOnSide(resolved.fetched, resolved.side)
        IN  IF open = {}
            THEN resolved.returned = None
            ELSE \E i \in open :
                    /\ \A j \in open : i <= j
                    /\ resolved.returned = resolved.fetched[i]

(***************************************************************************)
(* C20: a set_leverage that raises does not end the entry: the call goes    *)
(* on to the price and the order, and an entry that found no position and   *)
(* whose price fetch and order placement succeed places its market order    *)
(* exactly once and returns success.  On a venue that is not the futures    *)
(* venue set_leverage is never called.                                      *)
(***************************************************************************)
LeverageFailed(w) ==
    /\ frame[w].handler \in EntryActions
    /\ FailedCalls(w, {"set_leverage"}) # {}

C20_LeverageFailureNotFatal ==
    \A w \in Workers :
        /\ LeverageFailed(w) =>
              /\ pc[w] \in {"fetch_ticker", "entry_order", "done"}
              /\ Cardinality({i \in DOMAIN calls[w] : calls[w][i].op = "set_leverage"}) = 1
              /\ (pc[w] = "done" /\ FailedCalls(w, {"fetch_ticker"}) = {}) =>
                    Cardinality(OpeningOrders(w)) = 1
              /\ (/\ pc[w] = "done"
                  /\ frame[w].long_position = None
                  /\ frame[w].short_position = None
                  /\ FailedCalls(w, {"fetch_ticker"} \cup OrderOps) = {})
                 => /\ result[w].success
                    /\ result[w].message = "entry_ok"
                    /\ Cardinality(Orders(w)) = 1
        /\ (pc[w] # "idle" /\ ~is_futures(frame[w].exchange_name)) =>
              "set_leverage" \notin Ops(w)

C20_Witness ==
    /\ LeverageFailed(1)
    /\ pc[1] = "done"
    /\ frame[1].long_position = None
    /\ frame[1].short_position = None
    /\ result[1].message = "entry_ok"
    /\ \E i \in OpeningOrders(1) : calls[1][i].ok
    /\ positions["BTCUSDT"]["long"] > 0

(***************************************************************************)
(* C21: nothing is retried within one signal: every call site is passed at  *)
(* most once, whether its call failed or not (one balance lookup, one       *)
(* set_leverage, one price fetch, one opening and one reduce-only order,    *)
(* one position query per side and one for a nested exit), and a failed     *)
(* price fetch or order placement is the last gateway call of the signal,   *)
(* which ends with success = false.                                         *)
(***************************************************************************)
CallsOf(w, ops) == {i \in DOMAIN calls[w] : calls[w][i].op \in ops}

\* the position queries the path taken so far has call sites for
PositionQueriesDue(w) ==
    LET fr == frame[w]
        entry == IF pc[w] = "entry_get_long" THEN 0
                 ELSE IF pc[w] = "entry_get_short" THEN 1
                 ELSE 2
        exit == IF \/ fr.exit_side = ""
                   \/ pc[w] = "exit_get_position"
                   \/ percent_out_of_range(fr.percent)
                THEN 0 ELSE 1
    IN  IF fr.handler \in EntryActions THEN entry + exit
        ELSE IF fr.handler \in ExitActions THEN exit
        ELSE 0

C21_NothingRetried ==
    \A w \in Workers :
        /\ Cardinality(CallsOf(w, {"fetch_balance"})) <= 1
        /\ Cardinality(CallsOf(w, {"set_leverage"})) <= 1
        /\ Cardinality(CallsOf(w, {"fetch_ticker"})) <= 1
        /\ Cardinality(OpeningOrders(w)) <= 1
        /\ Cardinality(ReduceOrders(w)) <= 1
        /\ Cardinality(CallsOf(w, {"fetch_positions"})) = PositionQueriesDue(w)
        /\ \A i \in FailedCalls(w, OrderOps \cup {"fetch_ticker"}) :
              /\ i = Len(calls[w])
              /\ Failed(w)

C21_Witness ==
    /\ pc[1] = "done"
    /\ frame[1].handler = "short_entry"
    /\ FailedCalls(1, {"fetch_balance"}) # {}
    /\ ReduceOrders(1) # {}
    /\ FailedCalls(1, OrderOps) = {Len(calls[1])}
    /\ calls[1][Len(calls[1])].reduceOnly
    /\ ~result[1].success

(***************************************************************************)
(* C22: position state is not kept from one signal to the next: every       *)
(* market order of a signal, opening or reduce-only, comes after a          *)
(* fetch_positions call of the same signal for the same market, and every   *)
(* position a handler holds was reported by a fetch_positions call of the   *)
(* same signal and is what the venue held for that side.                    *)
(***************************************************************************)
AnsweredQueries(w) ==
    {i \in DOMAIN calls[w] : calls[w][i].op = "fetch_positions" /\ calls[w][i].ok}

HeldPositions(w) ==
    {frame[w].long_position, frame[w].short_position, frame[w].exit_position} \ {None}

C22_PositionsQueriedPerSignal ==
    \A w \in Workers :
        /\ \A i \in Orders(w) :
              \E j \in 1..(i - 1) :
                  /\ calls[w][j].op = "fetch_positions"
                  /\ calls[w][j].market = calls[w][i].market
        /\ HeldPositions(w) # {} => AnsweredQueries(w) # {}
        /\ pc[w] = "idle" => HeldPositions(w) = {}
        /\ (pc[w] = "entry_get_short" /\ frame[w].long_position # None) =>
              frame[w].long_position.contracts =
                  Contracts(positions[market_of(frame[w])]["long"])

C22_Witness ==
    /\ pc[1] = "done"
    /\ frame[1].handler = "long_entry"
    /\ frame[1].long_position = None
    /\ frame[1].short_position.contracts = Contracts(1)
    /\ Cardinality(AnsweredQueries(1)) = 3
    /\ \E i \in ReduceOrders(1) : calls[1][i].ok
    /\ \E i \in OpeningOrders(1) : calls[1][i].ok
    /\ positions["BTCUSDT"]["short"] = 0

(***************************************************************************)
(* C23: an exit signal only ever reduces: it places at most one order,      *)
(* that order is reduce-only and on the side opposite to the position       *)
(* (a sell for long_exit, a buy for short_exit), and the exit path never    *)
(* calls fetch_balance, set_leverage or fetch_ticker, also when the signal  *)
(* carries a percent and no amount.                                         *)
(***************************************************************************)
ClosingOp(action) ==
    IF action = "long_exit" THEN "create_market_sell_order" ELSE "create_market_buy_order"

C23_ExitOnlyReduces ==
    \A w \in Workers :
        (pc[w] # "idle" /\ action_of(received[w]) \in ExitActions) =>
            /\ Cardinality(Orders(w)) <= 1
            /\ \A i \in Orders(w) :
                  /\ calls[w][i].reduceOnly
                  /\ calls[w][i].op = ClosingOp(action_of(received[w]))
            /\ Ops(w) \cap {"fetch_balance", "set_leverage", "fetch_ticker"} = {}

C23_Witness ==
    /\ pc[1] = "done"
    /\ action_of(received[1]) = "long_exit"
    /\ "percent" \in DOMAIN received[1]
    /\ "amount" \notin DOMAIN received[1]
    /\ received[1].percent = 50
    /\ \E i \in Orders(1) : calls[1][i].ok /\ calls[1][i].op = "create_market_sell_order"
    /\ result[1].message = "exit_ok"

(***************************************************************************)
(* C24: with one signal at a time and no failing gateway call, the venue    *)
(* never holds an open long and an open short position of one market at     *)
(* the same time, and a position never grows: an opening order is filled    *)
(* only on a side that holds nothing.                                       *)
(***************************************************************************)
Hedged(held, market) == held[market]["long"] > 0 /\ held[market]["short"] > 0

Stacked(market, side) ==
    positions'[market][side] > positions[market][side] /\ positions[market][side] > 0

C24_NeverHedgedNorStacked ==
    [][\A market \in Markets :
          /\ ~Hedged(positions', market)
          /\ \A side \in Sides : ~Stacked(market, side)]_vars

\* a flip has closed the short position and opened a long one, while the
\* other market holds a position too
C24_Witness ==
    /\ pc[1] = "done"
    /\ received[1].action = "long_entry"
    /\ frame[1].short_position # None
    /\ \E i \in ReduceOrders(1) : calls[1][i].ok
    /\ \E i \in OpeningOrders(1) : calls[1][i].ok
    /\ positions["BTCUSDT"]["long"] > 0
    /\ positions["BTCUSDT"]["short"] = 0
    /\ positions["ETHUSDT"]["short"] > 0

(***************************************************************************)
(* C25: also when position queries fail, a long_entry places no buy order   *)
(* while the venue holds an open long position of that market, and a        *)
(* short_entry no sell order while it holds an open short one.              *)
(***************************************************************************)
PlacesOpeningOrder(w) ==
    /\ pc[w] = "entry_order"
    /\ Len(calls'[w]) = Len(calls[w]) + 1
    /\ calls'[w][Len(calls'[w])].op = OpeningOp(frame[w].handler)
    /\ ~calls'[w][Len(calls'[w])].reduceOnly

HeldOnEntrySide(w) ==
    LET market == market_of(frame[w])
        side == IF frame[w].handler = "long_entry" THEN "long" ELSE "short"
    IN  /\ is_futures(frame[w].exchange_name)
        /\ market \in Markets
        /\ positions[market][side] > 0

C25_NoEntryOverOpenPosition ==
    [][\A w \in Workers : PlacesOpeningOrder(w) => ~HeldOnEntrySide(w)]_vars

(***************************************************************************)
(* C26: an entry that has seen a position of the other direction and has    *)
(* placed its opening order has, earlier in the same call, placed a         *)
(* reduce-only order for the whole of that position, and the order was      *)
(* filled; also when the position query of the nested exit failed or        *)
(* found nothing.                                                           *)
(***************************************************************************)
OppositeSeen(w) ==
    IF frame[w].handler = "long_entry" THEN frame[w].short_position
    ELSE frame[w].long_position

ClosedInFullBefore(w, opening) ==
    \E i \in ReduceOrders(w) :
        /\ i < opening
        /\ calls[w][i].ok
        /\ calls[w][i].op = ClosingOp(IF frame[w].handler = "long_entry"
                                      THEN "short_exit" ELSE "long_exit")
        /\ calls[w][i].qty = OppositeSeen(w).contracts

C26_OpeningAfterFullClose ==
    \A w \in Workers :
        OppositeReported(w) =>
            \A opening \in OpeningOrders(w) : ClosedInFullBefore(w, opening)

(***************************************************************************)
(* C27: in percent mode with a balance that was found and a percent in      *)
(* (0, 100], the amount committed to the entry is at most the free USDT     *)
(* balance the venue reported.                                              *)
(***************************************************************************)
C27_AmountWithinFreeBalance ==
    \A w \in Workers :
        ( /\ BalanceSized(w)
          /\ received[w].percent > 0
          /\ received[w].percent <= 100 ) =>
            signal[w].amount <= frame[w].free_usdt

(***************************************************************************)
(* C28: when initialize_exchanges has completed, the registry holds a       *)
(* handle for a name only if the credential store holds credentials for     *)
(* that name, and the handle was built from the credentials stored now;     *)
(* a name without stored credentials, or whose handle could not be built    *)
(* from them, is not among the connected exchanges execute_signal accepts.  *)
(***************************************************************************)
BuiltFromStored(e) == secrets[e] # 0 /\ handles[e].keys = secrets[e]

C28_RegistryMatchesStore ==
    rebuild.pc = "idle" =>
        \A e \in ExchangeNames :
            /\ handles[e] # NoHandle => BuiltFromStored(e)
            /\ e \in exchanges => BuiltFromStored(e)

(***************************************************************************)
(* C29: after save_api_keys(e, k, s) the store returns (k, s) for e, and    *)
(* the credentials stored for every other exchange are the ones stored      *)
(* before, also when the secrets file could not be decrypted at the save.   *)
(***************************************************************************)
Saves(e) ==
    /\ rebuild.pc = "idle"
    /\ rebuild'.pc = "binance"
    /\ secrets'[e] = rebuild'.built

C29_SaveRoundTripAndFrame ==
    [][\A e \in ExchangeNames :
          Saves(e) =>
              /\ secrets'[e] = rebuild.built + 1
              /\ \A other \in ExchangeNames \ {e} : secrets'[other] = secrets[other]]_vars

====
